---- MODULE Spec2Model ----
(***************************************************************************)
(* The violation knowledge graph of xpSHACL (src/src/violation_kg.py) and  *)
(* the domain model it stores (src/src/xpshacl_architecture.py).           *)
(*                                                                         *)
(* Conventions of the model                                                *)
(*   - an RDF graph is a set of triples <<s, p, o>>; a term is a record:   *)
(*     [uri |-> "..."] for a URIRef, [lit |-> "..."] for a plain Literal   *)
(*     and [json |-> d] for a Literal whose lexical form is json.dumps(d). *)
(*     JSON text is a faithful encoding of the dictionaries used here      *)
(*     (string keys; strings, lists, null), so json.dumps / json.loads are *)
(*     modelled as wrapping / unwrapping the dictionary; what to_dict,     *)
(*     from_dict and get_explanation do with the dictionary is modelled    *)
(*     field by field.                                                     *)
(*   - a Turtle document is the set of triples it holds (rdflib's          *)
(*     serializer and parser), or is missing, or is unparseable.           *)
(*   - an Optional value is <<>> (None) or <<v>>.                          *)
(*   - md5 is treated as injective: the digest of a string is the string.  *)
(***************************************************************************)
EXTENDS Naturals, Sequences, FiniteSets, TLC

(***************************************************************************)
(* Bounds of the model.                                                    *)
(***************************************************************************)
\* longest constraint_params mapping drawn for the canonicalizer
MaxParams == 2
\* longest correction_suggestions sequence drawn for the round trip
MaxSuggestions == 2

(***************************************************************************)
(* Python values.                                                          *)
(***************************************************************************)
None == <<>>

Some(v) == <<v>>

\* Python truthiness of an Optional[str]: None and "" are falsy.
TruthyStr(o) == o /= None /\ o[1] /= ""

\* str(x) of an Optional[str] inside an f-string: None renders as "None".
PyStr(o) == IF o = None THEN "None" ELSE o[1]

Range(s) == { s[i] : i \in DOMAIN s }

(***************************************************************************)
(* RDF terms and the vocabulary.                                           *)
(***************************************************************************)
XSH == "http://xpshacl.org/#"

U(s) == [uri |-> s]

L(s) == [lit |-> s]

J(d) == [json |-> d]

RDF_type == U("rdf:type")

XSH_ViolationSignature == U(XSH \o "ViolationSignature")

XSH_Explanation == U(XSH \o "Explanation")

XSH_hasExplanation == U(XSH \o "hasExplanation")

XSH_constraintComponent == U(XSH \o "constraintComponent")

XSH_propertyPath == U(XSH \o "propertyPath")

XSH_violationType == U(XSH \o "violationType")

XSH_constraintParams == U(XSH \o "constraintParams")

XSH_naturalLanguageText == U(XSH \o "naturalLanguageText")

XSH_correctionSuggestions == U(XSH \o "correctionSuggestions")

XSH_providedByModel == U(XSH \o "providedByModel")

XSH_violation == U(XSH \o "violation")

XSH_justificationTree == U(XSH \o "justificationTree")

XSH_retrievedContext == U(XSH \o "retrievedContext")

\* The schema resource (TBox) the store loads at startup: the two record
\* kinds and the link between them.
Ontology ==
  { <<XSH_ViolationSignature, RDF_type, U("owl:Class")>>,
    <<XSH_Explanation, RDF_type, U("owl:Class")>>,
    <<XSH_hasExplanation, RDF_type, U("owl:ObjectProperty")>> }

(***************************************************************************)
(* Signatures: constraint_params is a dict, modelled in insertion order as *)
(* a sequence of <<key, value>> pairs with distinct keys.  A value is      *)
(* [str |-> s] (a string) or [obj |-> r] (an object json cannot encode,    *)
(* whose repr is r).                                                       *)
(***************************************************************************)
ParamKeys == <<"maxCount", "minCount", "pattern">>

\* position of a key in lexicographic order (Python's str comparison)
KeyRank(k) == CHOOSE i \in DOMAIN ParamKeys : ParamKeys[i] = k

ItemLess(a, b) == KeyRank(a[1]) < KeyRank(b[1])

RECURSIVE InsertSorted(_, _)
InsertSorted(x, s) ==
  IF s = <<>> THEN <<x>>
  ELSE IF ItemLess(x, Head(s)) THEN <<x>> \o s
  ELSE <<Head(s)>> \o InsertSorted(x, Tail(s))

RECURSIVE Sorted(_)
\* sorted(d.items()): the items in ascending key order
Sorted(items) ==
  IF items = <<>> THEN <<>>
  ELSE InsertSorted(Head(items), Sorted(Tail(items)))

\* repr of a parameter value: a string in quotes, an object by its repr
ReprValue(v) == IF "str" \in DOMAIN v THEN "'" \o v.str \o "'" ELSE v.obj

ReprItem(it) == "('" \o it[1] \o "', " \o ReprValue(it[2]) \o ")"

RECURSIVE ReprItems(_)
ReprItems(items) ==
  IF items = <<>> THEN ""
  ELSE IF Len(items) = 1 THEN ReprItem(items[1])
  ELSE ReprItem(Head(items)) \o ", " \o ReprItems(Tail(items))

\* repr of a list of tuples, as an f-string renders it
ReprList(items) == "[" \o ReprItems(items) \o "]"

md5(s) == s

\* the canonical string: insertion order kept (the mutation of line 71)
signature_string_unsorted(sig) ==
  sig.constraint_id \o "|" \o PyStr(sig.property_path) \o "|"
    \o sig.violation_type \o "|" \o ReprList(sig.constraint_params)

signature_string(sig) ==
  LET sorted_params == Sorted(sig.constraint_params)
  IN  sig.constraint_id \o "|" \o PyStr(sig.property_path) \o "|"
        \o sig.violation_type \o "|" \o ReprList(sorted_params)

signature_to_uri(sig) == U(XSH \o "sig_" \o md5(signature_string(sig)))

\* json.dumps raises TypeError on a value it cannot encode
JsonSerializable(items) == \A i \in DOMAIN items : "str" \in DOMAIN items[i][2]

(***************************************************************************)
(* The domain model (xpshacl_architecture.py).  An object and the          *)
(* dictionary to_dict makes of it are both records; an Enum member is its  *)
(* name, its value the string to_dict writes.                              *)
(***************************************************************************)
ViolationTypeMembers ==
  { "CARDINALITY", "VALUE_TYPE", "VALUE_RANGE", "PATTERN", "PROPERTY_PAIR",
    "LOGICAL", "OTHER" }

\* ViolationType.<member>.value
EnumValue(m) ==
  CASE m = "CARDINALITY" -> "cardinality"
    [] m = "VALUE_TYPE" -> "value_type"
    [] m = "VALUE_RANGE" -> "value_range"
    [] m = "PATTERN" -> "pattern"
    [] m = "PROPERTY_PAIR" -> "property_pair"
    [] m = "LOGICAL" -> "logical"
    [] m = "OTHER" -> "other"

\* ViolationType(value): the member with that value
ViolationType(v) == CHOOSE m \in ViolationTypeMembers : EnumValue(m) = v

\* ConstraintViolation.to_dict; violation_type is Some(member) on an object
ConstraintViolation_to_dict(v) ==
  [ focus_node |-> v.focus_node,
    shape_id |-> v.shape_id,
    constraint_id |-> v.constraint_id,
    violation_type |-> EnumValue(v.violation_type[1]),
    property_path |-> v.property_path,
    value |-> v.value,
    message |-> v.message,
    severity |-> v.severity,
    context |-> v.context ]

ConstraintViolation_from_dict(data) ==
  LET violation_type_value == data.violation_type
      violation_type ==
        IF violation_type_value /= "" THEN Some(ViolationType(violation_type_value))
        ELSE None
  IN  [ focus_node |-> data.focus_node,
        shape_id |-> data.shape_id,
        constraint_id |-> data.constraint_id,
        violation_type |-> violation_type,
        property_path |-> data.property_path,
        value |-> data.value,
        message |-> data.message,
        severity |-> data.severity,
        context |-> data.context ]

RECURSIVE JustificationNode_to_dict(_)
JustificationNode_to_dict(n) ==
  [ statement |-> n.statement,
    type |-> n.type,
    evidence |-> n.evidence,
    children |-> [ i \in DOMAIN n.children |->
                     JustificationNode_to_dict(n.children[i]) ] ]

RECURSIVE JustificationNode_from_dict(_)
JustificationNode_from_dict(data) ==
  [ statement |-> data.statement,
    type |-> data.type,
    evidence |-> data.evidence,
    children |-> [ i \in DOMAIN data.children |->
                     JustificationNode_from_dict(data.children[i]) ] ]

\* the violation of a tree object is Some(v), as get_explanation may build
\* a tree whose violation is None
JustificationTree_to_dict(t) ==
  [ violation |-> ConstraintViolation_to_dict(t.violation[1]),
    justification |-> JustificationNode_to_dict(t.root) ]

DomainContext_to_dict(c) ==
  [ ontology_fragments |-> c.ontology_fragments,
    shape_documentation |-> c.shape_documentation,
    similar_cases |-> c.similar_cases,
    domain_rules |-> c.domain_rules ]

DomainContext_from_dict(data) ==
  [ ontology_fragments |-> data.ontology_fragments,
    shape_documentation |-> data.shape_documentation,
    similar_cases |-> data.similar_cases,
    domain_rules |-> data.domain_rules ]

ExplanationOutput(nle, cs, v, jt, rc, pbm) ==
  [ natural_language_explanation |-> nle,
    correction_suggestions |-> cs,
    violation |-> v,
    justification_tree |-> jt,
    retrieved_context |-> rc,
    provided_by_model |-> pbm ]

RECURSIVE Depth(_)
\* edges on the longest path from a node down to a leaf
Depth(n) ==
  IF n.children = <<>> THEN 0
  ELSE LET D == { Depth(n.children[i]) : i \in DOMAIN n.children }
       IN  1 + CHOOSE d \in D : \A e \in D : e <= d

RECURSIVE Branching(_)
\* the largest number of children of a node of the tree
Branching(n) ==
  LET B == {Len(n.children)} \cup { Branching(n.children[i]) : i \in DOMAIN n.children }
  IN  CHOOSE b \in B : \A c \in B : c <= b

\* "\n".join(suggestions)
RECURSIVE JoinLines(_)
JoinLines(ss) ==
  IF ss = <<>> THEN ""
  ELSE IF Len(ss) = 1 THEN ss[1]
  ELSE Head(ss) \o "\n" \o JoinLines(Tail(ss))

(***************************************************************************)
(* The store (violation_kg.py): pure parts.                                *)
(***************************************************************************)
\* the objects of the triples (s, p, _) of g
Values(g, s, p) == { t[3] : t \in { x \in g : x[1] = s /\ x[2] = p } }

\* Graph.value(subject, predicate): None, or any one of the objects
value(g, s, p) ==
  IF Values(g, s, p) = {} THEN {None} ELSE { Some(o) : o \in Values(g, s, p) }

\* "is not None" in place of the truth test (a mutation)
TruthyTerm_not_none(o) == o /= None

\* bool(literal): a Literal is falsy when its lexical form is empty; the
\* JSON text of a dictionary never is
TruthyTerm(o) == o /= None /\ ("lit" \in DOMAIN o[1] => o[1].lit /= "")

has_violation(g, sig) ==
  <<signature_to_uri(sig), RDF_type, XSH_ViolationSignature>> \in g

\* what get_explanation raises when there is no linked explanation
NotFound == [error |-> "ValueError"]

\* lines 114-144: the ExplanationOutput built from the values read
Reconstruct(nlt, cs, provided_by_model, violation_data, justification_tree_data, retrieved_context_data) ==
  LET violation ==
        IF TruthyTerm(violation_data)
        THEN Some(ConstraintViolation_from_dict(violation_data[1].json))
        ELSE None
      justification_tree ==
        IF TruthyTerm(justification_tree_data)
        THEN LET justification_tree_dict == justification_tree_data[1].json
                 root_node ==
                   JustificationNode_from_dict(justification_tree_dict.justification)
             IN  Some([root |-> root_node, violation |-> violation])
        ELSE None
      retrieved_context ==
        IF TruthyTerm(retrieved_context_data)
        THEN Some(DomainContext_from_dict(retrieved_context_data[1].json))
        ELSE None
  IN  ExplanationOutput(
        IF TruthyTerm(nlt) THEN Some(nlt[1].lit) ELSE None,
        IF TruthyTerm(cs) THEN <<cs[1].lit>> ELSE <<>>,
        violation, justification_tree, retrieved_context,
        IF TruthyTerm(provided_by_model) THEN Some(provided_by_model[1].lit) ELSE None)

\* get_explanation without the check of lines 94-95 (a mutation): with no
\* link every Graph.value call returns None
get_explanation_unchecked(g, sig) ==
  LET sig_uri == signature_to_uri(sig)
      links == Values(g, sig_uri, XSH_hasExplanation)
  IN  IF links = {} THEN {Reconstruct(None, None, None, None, None, None)}
      ELSE { Reconstruct(nlt, cs, pbm, vd, jd, rd) :
               <<nlt, cs, pbm, vd, jd, rd>> \in
                 UNION { value(g, e, XSH_naturalLanguageText)
                           \X value(g, e, XSH_correctionSuggestions)
                           \X value(g, e, XSH_providedByModel)
                           \X value(g, e, XSH_violation)
                           \X value(g, e, XSH_justificationTree)
                           \X value(g, e, XSH_retrievedContext) : e \in links } }

\* every outcome get_explanation can have on graph g: NotFound, or one
\* ExplanationOutput per choice Graph.value makes among several objects
get_explanation(g, sig) ==
  LET sig_uri == signature_to_uri(sig)
      links == Values(g, sig_uri, XSH_hasExplanation)
  IN  IF links = {} THEN {NotFound}
      ELSE { Reconstruct(nlt, cs, pbm, vd, jd, rd) :
               <<nlt, cs, pbm, vd, jd, rd>> \in
                 UNION { value(g, e, XSH_naturalLanguageText)
                           \X value(g, e, XSH_correctionSuggestions)
                           \X value(g, e, XSH_providedByModel)
                           \X value(g, e, XSH_violation)
                           \X value(g, e, XSH_justificationTree)
                           \X value(g, e, XSH_retrievedContext) : e \in links } }

size(g) == Cardinality(g)

\* one statement of add_violation: the triple it adds; ok is FALSE when
\* building the triple raises (json.dumps on a value it cannot encode)
\* a statement whose condition is not tested (a mutation): the fact is
\* written whether or not the field is set
Stmt_unconditional(cond, ok, t) == <<[ok |-> ok, t |-> t]>>

Stmt(cond, ok, t) == IF cond THEN <<[ok |-> ok, t |-> t]>> ELSE <<>>

ViolationSerializable(v) == JsonSerializable(v.context)

\* lines 155-223 in order, each statement whose condition holds
Statements(sig, explanation) ==
  LET sig_uri == signature_to_uri(sig)
      expl_uri == U(sig_uri.uri \o "_explanation")
      v == explanation.violation
      jt == explanation.justification_tree
      rc == explanation.retrieved_context
  IN  Stmt(TRUE, TRUE, <<sig_uri, RDF_type, XSH_ViolationSignature>>)
      \o Stmt(TRUE, TRUE, <<sig_uri, XSH_constraintComponent, L(sig.constraint_id)>>)
      \o Stmt(TruthyStr(sig.property_path), TRUE,
              <<sig_uri, XSH_propertyPath, L(PyStr(sig.property_path))>>)
      \o Stmt(sig.violation_type /= "", TRUE,
              <<sig_uri, XSH_violationType, L(sig.violation_type)>>)
      \o Stmt(sig.constraint_params /= <<>>, JsonSerializable(sig.constraint_params),
              <<sig_uri, XSH_constraintParams, J(Sorted(sig.constraint_params))>>)
      \o Stmt(TRUE, TRUE, <<expl_uri, RDF_type, XSH_Explanation>>)
      \o Stmt(TRUE, TRUE, <<sig_uri, XSH_hasExplanation, expl_uri>>)
      \o Stmt(TruthyStr(explanation.natural_language_explanation), TRUE,
              <<expl_uri, XSH_naturalLanguageText,
                L(PyStr(explanation.natural_language_explanation))>>)
      \o Stmt(explanation.correction_suggestions /= <<>>, TRUE,
              <<expl_uri, XSH_correctionSuggestions,
                L(JoinLines(explanation.correction_suggestions))>>)
      \o Stmt(TruthyStr(explanation.provided_by_model), TRUE,
              <<expl_uri, XSH_providedByModel, L(PyStr(explanation.provided_by_model))>>)
      \o Stmt(v /= None, v /= None /\ ViolationSerializable(v[1]),
              <<expl_uri, XSH_violation,
                IF v /= None THEN J(ConstraintViolation_to_dict(v[1])) ELSE J(None)>>)
      \o Stmt(jt /= None,
              jt /= None /\ jt[1].violation /= None
                /\ ViolationSerializable(jt[1].violation[1]),
              <<expl_uri, XSH_justificationTree,
                IF jt /= None THEN J(JustificationTree_to_dict(jt[1])) ELSE J(None)>>)
      \o Stmt(rc /= None, TRUE,
              <<expl_uri, XSH_retrievedContext,
                IF rc /= None THEN J(DomainContext_to_dict(rc[1])) ELSE J(None)>>)

\* the statements that run: all of them, or those before the first that raises
RECURSIVE Executed(_)
Executed(stmts) ==
  IF stmts = <<>> \/ ~Head(stmts).ok THEN <<>>
  ELSE <<Head(stmts).t>> \o Executed(Tail(stmts))

Raises(stmts) == \E i \in DOMAIN stmts : ~stmts[i].ok

\* __init__ with a bare except around the second parse (a mutation): an
\* unparseable instance document is skipped like a missing one
Construct_swallow(ontology, kg) ==
  IF ontology.status = "missing" THEN [raised |-> "FileNotFoundError"]
  ELSE IF ontology.status = "corrupt" THEN [raised |-> "ParserError"]
  ELSE IF kg.status \in {"missing", "corrupt"} THEN [graph |-> ontology.triples]
  ELSE [graph |-> ontology.triples \cup kg.triples]

\* __init__, lines 36-46: the graph of a store opened on the two documents,
\* or the failure the constructor raises
Construct(ontology, kg) ==
  IF ontology.status = "missing" THEN [raised |-> "FileNotFoundError"]
  ELSE IF ontology.status = "corrupt" THEN [raised |-> "ParserError"]
  ELSE IF kg.status = "missing" THEN [graph |-> ontology.triples]
  ELSE IF kg.status = "corrupt" THEN [raised |-> "ParserError"]
  ELSE [graph |-> ontology.triples \cup kg.triples]

\* the instance records of a graph: the subjects typed ViolationSignature
Records(g) == { t[1] : t \in { x \in g : x[2] = RDF_type /\ x[3] = XSH_ViolationSignature } }

(***************************************************************************)
(* Inputs.                                                                 *)
(***************************************************************************)
Str(s) == [str |-> s]

SigA ==
  [ constraint_id |-> "sh:MinCountConstraintComponent",
    property_path |-> Some("ex:hasName"),
    violation_type |-> "cardinality",
    constraint_params |-> << <<"minCount", Str("1")>>, <<"maxCount", Str("2")>> >> ]

\* SigA with its parameters inserted in the other order
SigA2 == [SigA EXCEPT !.constraint_params = << <<"maxCount", Str("2")>>, <<"minCount", Str("1")>> >>]

SigB ==
  [ constraint_id |-> "sh:MinCountConstraintComponent",
    property_path |-> None,
    violation_type |-> "cardinality",
    constraint_params |-> <<>> ]

\* a signature whose parameters json.dumps cannot encode (a set)
SigBad ==
  [ constraint_id |-> "sh:InConstraintComponent",
    property_path |-> Some("ex:hasName"),
    violation_type |-> "other",
    constraint_params |-> << <<"minCount", [obj |-> "{1}"]>> >> ]

Sigs == {SigA, SigA2, SigB, SigBad}

Violation(focus) ==
  [ focus_node |-> focus,
    shape_id |-> "ex:PersonShape",
    constraint_id |-> "sh:MinCountConstraintComponent",
    violation_type |-> Some("CARDINALITY"),
    property_path |-> Some("ex:hasName"),
    value |-> None,
    message |-> Some("Less than 1 values"),
    severity |-> Some("sh:Violation"),
    context |-> <<>> ]

Node(statement, type, evidence, children) ==
  [statement |-> statement, type |-> type, evidence |-> evidence, children |-> children]

\* a justification tree of depth 2 whose root has two children
Root1 ==
  Node("ex:alice violates ex:PersonShape", "conclusion", None,
       << Node("ex:hasName has minCount 1", "premise", Some("sh:minCount 1"),
               << Node("the shape targets ex:Person", "observation", None, <<>>) >>),
          Node("ex:alice has no ex:hasName", "observation", None, <<>>) >>)

Tree1 == [root |-> Root1, violation |-> Some(Violation("ex:alice"))]

Context1 ==
  [ ontology_fragments |-> <<"ex:hasName a owl:DatatypeProperty">>,
    shape_documentation |-> <<"Every person has a name">>,
    similar_cases |-> <<>>,
    domain_rules |-> <<"names are mandatory">> ]

Suggestions == {"Add an ex:hasName value.", "Remove the node.", ""}

RECURSIVE SeqsUpTo(_, _)
\* the sequences over S of length at most n
SeqsUpTo(S, n) ==
  IF n = 0 THEN {<<>>}
  ELSE LET shorter == SeqsUpTo(S, n - 1)
       IN  shorter \cup { Append(q, x) : q \in shorter, x \in S }

\* the explanations drawn for the round trip
AllExplanations ==
  { ExplanationOutput(nle, cs, v, jt, rc, pbm) :
      nle \in {Some("Node is missing a required name."), Some("The node has no name.")},
      cs \in SeqsUpTo(Suggestions, MaxSuggestions),
      v \in {None, Some(Violation("ex:alice")), Some(Violation("ex:bob"))},
      jt \in {None, Some(Tree1)},
      rc \in {None, Some(Context1)},
      pbm \in {None, Some("model-v1")} }

\* the spec's concrete scenario
ExPlain ==
  ExplanationOutput(Some("Node is missing a required name."),
                    <<"Add an ex:hasName value.">>, None, None, None, Some("model-v1"))

ExOther ==
  ExplanationOutput(Some("The node has no name."), <<>>,
                    Some(Violation("ex:alice")), None, None, None)

ExMulti ==
  ExplanationOutput(Some("Node is missing a required name."),
                    <<"Add an ex:hasName value.", "Remove the node.">>,
                    None, None, None, Some("model-v1"))

ExFull ==
  ExplanationOutput(Some("Node is missing a required name."),
                    <<"Add an ex:hasName value.">>, Some(Violation("ex:alice")),
                    Some(Tree1), Some(Context1), Some("model-v1"))

\* an explanation whose violation json.dumps cannot encode: its free-form
\* context holds a set
ExBad ==
  ExplanationOutput(Some("The node has no name."), <<"Remove the node.">>,
                    Some([Violation("ex:alice") EXCEPT
                            !.context = << <<"seen", [obj |-> "{1}"]>> >>]),
                    None, None, None)

\* the explanations the store's operations are called with
Explanations == {ExPlain, ExOther, ExMulti, ExFull, ExBad}

(***************************************************************************)
(* State.                                                                  *)
(***************************************************************************)
VARIABLES
  ontology_doc,  \* the schema resource at ontology_path: [status, triples]
  kg_doc,        \* the instance document at kg_path: [status, triples]
  store,         \* "none" (not constructed), "open", or "failed" (__init__ raised)
  graph,         \* self.graph
  last,          \* the last operation: [op, sig, expl, out]
  first,         \* history: signature identifier -> the explanation of the put that created it
  threads,       \* the callers of the concurrent specification: [pc, sig, expl, i]
  canon,         \* the canonicalizer's specification: [s1, s2, out]
  trip           \* the domain model's specification: [kind, x, out]

vars == <<ontology_doc, kg_doc, store, graph, last, first, threads, canon, trip>>

Missing == [status |-> "missing", triples |-> {}]

Corrupt == [status |-> "corrupt", triples |-> {}]

Document(g) == [status |-> "ok", triples |-> g]

NoSig == [none |-> TRUE]

NoExpl == [none |-> TRUE]

Op(op, sig, expl, out) == [op |-> op, sig |-> sig, expl |-> expl, out |-> out]

Threads == {1, 2}

Idle == [pc |-> "idle", sig |-> NoSig, expl |-> NoExpl, i |-> 0]

NoCanon == [s1 |-> NoSig, s2 |-> NoSig, out |-> <<>>]

NoTrip == [kind |-> "none", x |-> NoSig, out |-> <<>>]

(***************************************************************************)
(* Operations of one store, called one after the other.                    *)
(***************************************************************************)
\* ViolationKnowledgeGraph(ontology_path, kg_path): a process (re)starts
Open ==
  LET r == Construct(ontology_doc, kg_doc)
  IN  /\ IF "raised" \in DOMAIN r
         THEN store' = "failed" /\ graph' = {}
         ELSE store' = "open" /\ graph' = r.graph
      /\ last' = Op("open", NoSig, NoExpl, IF "raised" \in DOMAIN r THEN r ELSE [ok |-> TRUE])
      /\ UNCHANGED <<ontology_doc, kg_doc, first, threads, canon, trip>>

\* save_kg: the whole graph is written to kg_path
save_kg(g) == Document(g)

Remember(f, u, e) == [x \in DOMAIN f \cup {u} |-> IF x = u THEN e ELSE f[x]]

\* add_violation without the check of line 152 (a mutation)
add_violation_unguarded(sig, explanation) ==
  /\ store = "open"
  /\ LET stmts == Statements(sig, explanation)
     IN  /\ graph' = graph \cup Range(Executed(stmts))
         /\ IF Raises(stmts)
            THEN /\ last' = Op("put", sig, explanation, [raised |-> "TypeError"])
                 /\ UNCHANGED <<kg_doc, first>>
            ELSE /\ kg_doc' = save_kg(graph')
                 /\ first' = IF has_violation(graph, sig) THEN first
                             ELSE Remember(first, signature_to_uri(sig), explanation)
                 /\ last' = Op("put", sig, explanation, [ok |-> TRUE])
  /\ UNCHANGED <<ontology_doc, store, threads, canon, trip>>

add_violation(sig, explanation) ==
  /\ store = "open"
  /\ IF has_violation(graph, sig)
     THEN /\ last' = Op("put", sig, explanation, [noop |-> TRUE])
          /\ UNCHANGED <<graph, kg_doc, first>>
     ELSE LET stmts == Statements(sig, explanation)
          IN  /\ graph' = graph \cup Range(Executed(stmts))
              /\ IF Raises(stmts)
                 THEN /\ last' = Op("put", sig, explanation, [raised |-> "TypeError"])
                      /\ UNCHANGED <<kg_doc, first>>
                 ELSE /\ kg_doc' = save_kg(graph')
                      /\ first' = Remember(first, signature_to_uri(sig), explanation)
                      /\ last' = Op("put", sig, explanation, [ok |-> TRUE])
  /\ UNCHANGED <<ontology_doc, store, threads, canon, trip>>

clear ==
  /\ store = "open"
  /\ graph' = {}
  /\ kg_doc' = save_kg(graph')
  /\ first' = <<>>
  /\ last' = Op("clear", NoSig, NoExpl, [ok |-> TRUE])
  /\ UNCHANGED <<ontology_doc, store, threads, canon, trip>>

Exists(sig) ==
  /\ store = "open"
  /\ last' = Op("exists", sig, NoExpl, [bool |-> has_violation(graph, sig)])
  /\ UNCHANGED <<ontology_doc, kg_doc, store, graph, first, threads, canon, trip>>

Get(sig) ==
  /\ store = "open"
  /\ \E r \in get_explanation(graph, sig) :
       last' = Op("get", sig, NoExpl,
                  IF r = NotFound THEN [raised |-> "ValueError"] ELSE [value |-> r])
  /\ UNCHANGED <<ontology_doc, kg_doc, store, graph, first, threads, canon, trip>>

\* size() that first reloads the graph with load_kg (a mutation)
Size_reload ==
  /\ store = "open"
  /\ graph' = kg_doc.triples
  /\ last' = Op("size", NoSig, NoExpl, [int |-> size(graph')])
  /\ UNCHANGED <<ontology_doc, kg_doc, store, first, threads, canon, trip>>

Size ==
  /\ store = "open"
  /\ last' = Op("size", NoSig, NoExpl, [int |-> size(graph)])
  /\ UNCHANGED <<ontology_doc, kg_doc, store, graph, first, threads, canon, trip>>

Init ==
  /\ ontology_doc \in {Document(Ontology), Missing, Corrupt}
  /\ kg_doc \in {Missing, Corrupt}
  /\ store = "none"
  /\ graph = {}
  /\ last = Op("none", NoSig, NoExpl, [ok |-> TRUE])
  /\ first = <<>>
  /\ threads = [t \in Threads |-> Idle]
  /\ canon = NoCanon
  /\ trip = NoTrip

Next ==
  \/ Open
  \/ \E sig \in Sigs, explanation \in Explanations : add_violation(sig, explanation)
  \/ clear
  \/ \E sig \in Sigs : Exists(sig)
  \/ \E sig \in Sigs : Get(sig)
  \/ Size

Spec == Init /\ [][Next]_vars

(***************************************************************************)
(* The round trip on a fresh store: one put of any drawn explanation,      *)
(* then reads.                                                             *)
(***************************************************************************)
InitFresh ==
  /\ ontology_doc = Document(Ontology)
  /\ kg_doc = Missing
  /\ store = "open"
  /\ graph = Construct(ontology_doc, kg_doc).graph
  /\ last = Op("open", NoSig, NoExpl, [ok |-> TRUE])
  /\ first = <<>>
  /\ threads = [t \in Threads |-> Idle]
  /\ canon = NoCanon
  /\ trip = NoTrip

PutFresh ==
  /\ Records(graph) = {}
  /\ \E sig \in {SigA, SigB}, explanation \in AllExplanations :
       add_violation(sig, explanation)

NextRoundTrip ==
  \/ PutFresh
  \/ \E sig \in {SigA, SigB} : Get(sig)

SpecRoundTrip == InitFresh /\ [][NextRoundTrip]_vars

(***************************************************************************)
(* The canonicalizer alone: two signatures are drawn and canonicalized.    *)
(***************************************************************************)
ParamValues == {Str("1"), Str("2")}

RECURSIVE ParamsUpTo(_)
\* the dicts of at most n items, in every insertion order
ParamsUpTo(n) ==
  IF n = 0 THEN {<<>>}
  ELSE LET shorter == ParamsUpTo(n - 1)
       IN  shorter \cup
             { Append(q, <<k, v>>) :
                 q \in { x \in shorter : Len(x) = n - 1 },
                 k \in Range(ParamKeys), v \in ParamValues }

DistinctKeys(ps) == \A i, j \in DOMAIN ps : ps[i][1] = ps[j][1] => i = j

CanonSigs ==
  { [ constraint_id |-> "sh:MinCountConstraintComponent",
      property_path |-> p,
      violation_type |-> "cardinality",
      constraint_params |-> ps ] :
      p \in {None, Some("ex:hasName"), Some("None")},
      ps \in { x \in ParamsUpTo(MaxParams) : DistinctKeys(x) } }

InitCanon ==
  /\ ontology_doc = Document(Ontology)
  /\ kg_doc = Missing
  /\ store = "none"
  /\ graph = {}
  /\ last = Op("none", NoSig, NoExpl, [ok |-> TRUE])
  /\ first = <<>>
  /\ threads = [t \in Threads |-> Idle]
  /\ \E s1, s2 \in CanonSigs : canon = [s1 |-> s1, s2 |-> s2, out |-> <<>>]
  /\ trip = NoTrip

Canonicalize ==
  /\ canon.out = <<>>
  /\ canon' = [canon EXCEPT !.out = <<signature_to_uri(canon.s1), signature_to_uri(canon.s2)>>]
  /\ UNCHANGED <<ontology_doc, kg_doc, store, graph, last, first, threads, trip>>

NextCanon == Canonicalize

SpecCanon == InitCanon /\ [][NextCanon]_vars

(***************************************************************************)
(* Two callers run add_violation on one store at the same time, for the    *)
(* same signature.  The code takes no lock: a caller's steps are the check *)
(* of line 152, each graph.add, and save_kg.                               *)
(***************************************************************************)
InitConcurrent ==
  /\ ontology_doc = Document(Ontology)
  /\ kg_doc = Missing
  /\ store = "open"
  /\ graph = Construct(ontology_doc, kg_doc).graph
  /\ last = Op("open", NoSig, NoExpl, [ok |-> TRUE])
  /\ first = <<>>
  /\ canon = NoCanon
  /\ trip = NoTrip
  /\ \E sig \in {SigA, SigB}, e1, e2 \in Explanations :
       /\ e1 /= e2
       /\ threads = [t \in Threads |->
                       [pc |-> "call", sig |-> sig, expl |-> IF t = 1 THEN e1 ELSE e2, i |-> 0]]

\* line 152: if self.has_violation(sig): return
T_check(t) ==
  /\ threads[t].pc = "call"
  /\ threads' = [threads EXCEPT ![t].pc = IF has_violation(graph, threads[t].sig)
                                          THEN "done" ELSE "add",
                                ![t].i = 1]
  /\ UNCHANGED <<ontology_doc, kg_doc, store, graph, last, first, canon, trip>>

\* lines 155-223: the next graph.add
T_add(t) ==
  LET stmts == Statements(threads[t].sig, threads[t].expl)
      i == threads[t].i
  IN  /\ threads[t].pc = "add"
      /\ i <= Len(stmts)
      /\ IF stmts[i].ok
         THEN /\ graph' = graph \cup {stmts[i].t}
              /\ threads' = [threads EXCEPT ![t].i = i + 1,
                                            ![t].pc = IF i = Len(stmts) THEN "save" ELSE "add"]
         ELSE /\ threads' = [threads EXCEPT ![t].pc = "raised"]
              /\ UNCHANGED graph
      /\ UNCHANGED <<ontology_doc, kg_doc, store, last, first, canon, trip>>

\* line 225: self.save_kg()
T_save(t) ==
  /\ threads[t].pc = "save"
  /\ kg_doc' = save_kg(graph)
  /\ threads' = [threads EXCEPT ![t].pc = "done"]
  /\ UNCHANGED <<ontology_doc, store, graph, last, first, canon, trip>>

NextConcurrent ==
  \/ \E t \in Threads : T_check(t)
  \/ \E t \in Threads : T_add(t)
  \/ \E t \in Threads : T_save(t)

SpecConcurrent == InitConcurrent /\ [][NextConcurrent]_vars

(***************************************************************************)
(* The domain model alone: a value is drawn, to_dict is applied to it and  *)
(* from_dict to the dictionary.  An outcome is [value |-> v] or, when the  *)
(* call raises, [raised |-> "..."].                                        *)
(***************************************************************************)
\* JustificationTree.from_dict: both sub-dictionaries are decoded, then the
\* constructor is called with the keyword justification, which the
\* dataclass (fields root, violation) does not have
JustificationTree_from_dict(data) == [raised |-> "TypeError"]

ExplanationOutput_to_dict(e) ==
  [ violation |-> IF e.violation /= None
                  THEN Some(ConstraintViolation_to_dict(e.violation[1])) ELSE None,
    justification_tree |-> IF e.justification_tree /= None
                           THEN Some(JustificationTree_to_dict(e.justification_tree[1]))
                           ELSE None,
    retrieved_context |-> IF e.retrieved_context /= None
                          THEN Some(DomainContext_to_dict(e.retrieved_context[1]))
                          ELSE None,
    natural_language_explanation |-> e.natural_language_explanation,
    correction_suggestions |-> e.correction_suggestions,
    provided_by_model |-> e.provided_by_model ]

ExplanationOutput_from_dict(data) ==
  LET tree == IF data.justification_tree /= None
              THEN JustificationTree_from_dict(data.justification_tree[1])
              ELSE [value |-> None]
  IN  IF "raised" \in DOMAIN tree THEN tree
      ELSE [value |->
              ExplanationOutput(
                data.natural_language_explanation,
                data.correction_suggestions,
                IF data.violation /= None
                THEN Some(ConstraintViolation_from_dict(data.violation[1])) ELSE None,
                tree.value,
                IF data.retrieved_context /= None
                THEN Some(DomainContext_from_dict(data.retrieved_context[1])) ELSE None,
                data.provided_by_model)]

RECURSIVE Subtrees(_)
\* a node and every node below it
Subtrees(n) == {n} \cup UNION { Subtrees(n.children[i]) : i \in DOMAIN n.children }

EmptyContext ==
  [ ontology_fragments |-> <<>>, shape_documentation |-> <<>>,
    similar_cases |-> <<>>, domain_rules |-> <<>> ]

\* the values drawn, by class
DomainValues(kind) ==
  CASE kind = "ConstraintViolation" -> {Violation("ex:alice"), Violation("ex:bob")}
    [] kind = "JustificationNode" -> Subtrees(Root1)
    [] kind = "JustificationTree" ->
         {Tree1, [root |-> Root1.children[2], violation |-> Some(Violation("ex:bob"))]}
    [] kind = "DomainContext" -> {Context1, EmptyContext}
    [] kind = "ExplanationOutput" -> AllExplanations

Kinds ==
  { "ConstraintViolation", "JustificationNode", "JustificationTree",
    "DomainContext", "ExplanationOutput" }

\* cls.from_dict(x.to_dict())
FromDictToDict(kind, x) ==
  CASE kind = "ConstraintViolation" ->
         [value |-> ConstraintViolation_from_dict(ConstraintViolation_to_dict(x))]
    [] kind = "JustificationNode" ->
         [value |-> JustificationNode_from_dict(JustificationNode_to_dict(x))]
    [] kind = "JustificationTree" ->
         JustificationTree_from_dict(JustificationTree_to_dict(x))
    [] kind = "DomainContext" ->
         [value |-> DomainContext_from_dict(DomainContext_to_dict(x))]
    [] kind = "ExplanationOutput" ->
         ExplanationOutput_from_dict(ExplanationOutput_to_dict(x))

InitDomain ==
  /\ ontology_doc = Document(Ontology)
  /\ kg_doc = Missing
  /\ store = "none"
  /\ graph = {}
  /\ last = Op("none", NoSig, NoExpl, [ok |-> TRUE])
  /\ first = <<>>
  /\ threads = [t \in Threads |-> Idle]
  /\ canon = NoCanon
  /\ \E kind \in Kinds : \E x \in DomainValues(kind) :
       trip = [kind |-> kind, x |-> x, out |-> <<>>]

Serialize ==
  /\ trip.out = <<>>
  /\ trip' = [trip EXCEPT !.out = <<FromDictToDict(trip.kind, trip.x)>>]
  /\ UNCHANGED <<ontology_doc, kg_doc, store, graph, last, first, threads, canon>>

NextDomain == Serialize

SpecDomain == InitDomain /\ [][NextDomain]_vars

(***************************************************************************)
(* Claims.                                                                 *)
(***************************************************************************)
LastSigUri == signature_to_uri(last.sig)

\* the last operation was a put that found its signature present
PutWasNoOp == last.op = "put" /\ "noop" \in DOMAIN last.out

\* the last operation was a put that inserted and returned
PutInserted == last.op = "put" /\ "ok" \in DOMAIN last.out

\* C1 (as claimed): when put(S, E2) follows the put(S, E1) that created S,
\* with E1 /= E2, get(S) returns E1.
C1_InsertIfAbsent ==
  (PutWasNoOp /\ LastSigUri \in DOMAIN first /\ first[LastSigUri] /= last.expl)
    => get_explanation(graph, last.sig) = {first[LastSigUri]}

\* C2 (as claimed): after a put(S, E) that inserted S returns, a store
\* constructed from the same schema resource and instance document has
\* exists(S) true and get(S) = E.
C2_PersistenceDurability ==
  PutInserted =>
    LET r == Construct(ontology_doc, kg_doc)
    IN  /\ "graph" \in DOMAIN r
        /\ has_violation(r.graph, last.sig)
        /\ get_explanation(r.graph, last.sig) = {last.expl}

\* size() of a store freshly opened with no instance document
EmptyStateSize == size(Construct(ontology_doc, Missing).graph)

\* C3 (as claimed): after clear(), exists(S) is false for every S, the
\* schema definitions loaded at startup are still in the store and size()
\* is the empty-state value.
C3_ClearSemantics ==
  last.op = "clear" =>
    /\ \A sig \in Sigs : ~has_violation(graph, sig)
    /\ ontology_doc.triples \subseteq graph
    /\ size(graph) = EmptyStateSize

\* a justification tree of depth >= 2 and branching >= 2, and a
\* retrieved_context that is not empty
NonTrivial(e) ==
  /\ e.justification_tree /= None
  /\ Depth(e.justification_tree[1].root) >= 2
  /\ Branching(e.justification_tree[1].root) >= 2
  /\ e.retrieved_context /= None
  /\ e.retrieved_context[1].ontology_fragments /= <<>>

\* C4 (as claimed): after put(S, E) on a fresh store, with E's tree and
\* context non-trivial, get(S) returns E field for field.
C4_RoundTrip ==
  (PutInserted /\ Cardinality(Records(graph)) = 1 /\ NonTrivial(last.expl))
    => get_explanation(graph, last.sig) = {last.expl}

\* C5: on a store with no instance facts exists(S) is false for every S,
\* and get(S) raises (returns no value) whenever S is absent or is present
\* without a hasExplanation link.
C5_MissBehaviour ==
  store = "open" =>
    /\ graph \subseteq ontology_doc.triples => \A sig \in Sigs : ~has_violation(graph, sig)
    /\ \A sig \in Sigs :
         (~has_violation(graph, sig)
            \/ Values(graph, signature_to_uri(sig), XSH_hasExplanation) = {})
           => get_explanation(graph, sig) = {NotFound}

\* C5's case: get(S) has just raised on a signature that is present without
\* a linked explanation (its put raised half way)
C5_Witness ==
  /\ last.op = "get" /\ "raised" \in DOMAIN last.out
  /\ has_violation(graph, last.sig)

\* the same field values, the parameters compared as mappings
SameContent(s1, s2) ==
  /\ s1.constraint_id = s2.constraint_id
  /\ s1.property_path = s2.property_path
  /\ s1.violation_type = s2.violation_type
  /\ Range(s1.constraint_params) = Range(s2.constraint_params)

\* C6: two signatures with the same constraint_id, property_path,
\* violation_type and the same constraint_params content, in whatever
\* insertion order, get the same identifier.
C6_CanonicalStability ==
  (canon.out /= <<>> /\ SameContent(canon.s1, canon.s2))
    => canon.out[1] = canon.out[2]

\* C6's case: two parameters inserted in opposite orders were canonicalized
C6_Witness ==
  /\ canon.out /= <<>>
  /\ SameContent(canon.s1, canon.s2)
  /\ Len(canon.s1.constraint_params) = 2
  /\ canon.s1.constraint_params /= canon.s2.constraint_params

\* the triples a put of (sig, e) writes on its own
Written(sig, e) == Range(Executed(Statements(sig, e)))

\* C7 (as claimed): when two callers run put(S, E1) and put(S, E2) at the
\* same time on a fresh store, the store ends with exactly one explanation
\* for S, all of E1 or all of E2, and get(S) has one outcome.
C7_ConcurrentInsertIfAbsent ==
  (\A t \in Threads : threads[t].pc = "done")
    => /\ \E t \in Threads :
            graph = ontology_doc.triples \cup Written(threads[t].sig, threads[t].expl)
       /\ Cardinality(get_explanation(graph, threads[1].sig)) = 1

Reads == {"exists", "get", "size"}

\* C8: in a step of exists, get, size or put, a signature that exists keeps
\* existing and get keeps its outcome; only clear removes an entry.
C8_EntryLifecycle ==
  [][(store = "open" /\ last'.op \in Reads \cup {"put"})
       => \A sig \in Sigs :
            has_violation(graph, sig)
              => /\ has_violation(graph', sig)
                 /\ get_explanation(graph', sig) = get_explanation(graph, sig)]_vars

\* C8's case: a later put (with another explanation) on a stored signature
C8_Witness ==
  /\ PutWasNoOp
  /\ LastSigUri \in DOMAIN first
  /\ first[LastSigUri] /= last.expl
  /\ has_violation(graph, last.sig)

\* C9: a step of exists, get (returning or raising) or size changes
\* neither the in-memory graph nor the persisted instance document.
C9_ReadsArePure ==
  [][last'.op \in Reads => (graph' = graph /\ kg_doc' = kg_doc)]_vars

\* C9's case: a get returned an explanation from a store that holds records
C9_Witness ==
  /\ last.op = "get" /\ "value" \in DOMAIN last.out
  /\ kg_doc.status = "ok"

\* C10: a missing instance document gives an open store with no instance
\* records; a missing or unparseable schema resource, or an unparseable
\* instance document, makes the constructor raise, and no operation runs on
\* the store that failed to open.
C10_Opening ==
  /\ last.op = "open" =>
       /\ (ontology_doc.status = "ok" /\ kg_doc.status = "missing")
            => (store = "open" /\ "ok" \in DOMAIN last.out /\ Records(graph) = {})
       /\ (ontology_doc.status /= "ok" \/ kg_doc.status = "corrupt")
            => (store = "failed" /\ "raised" \in DOMAIN last.out)
  /\ store = "failed" => last.op = "open"

\* C10's case: the schema resource is fine, the instance document is
\* unparseable, and the open has failed
C10_Witness ==
  /\ last.op = "open"
  /\ ontology_doc.status = "ok"
  /\ kg_doc.status = "corrupt"
  /\ store = "failed"

B(b) == IF b THEN 1 ELSE 0

\* the facts C11 counts for a put: the four fixed ones, and one per
\* optional field of the signature or the explanation that is set
FactCount(sig, e) ==
  4 + B(TruthyStr(sig.property_path)) + B(sig.violation_type /= "")
    + B(sig.constraint_params /= <<>>)
    + B(TruthyStr(e.natural_language_explanation))
    + B(e.correction_suggestions /= <<>>)
    + B(TruthyStr(e.provided_by_model))
    + B(e.violation /= None) + B(e.justification_tree /= None)
    + B(e.retrieved_context /= None)

\* C11: a put on a signature that is present leaves size() unchanged, and
\* a put that inserts raises size() by exactly the number of facts it
\* writes: four, plus one per optional field that is set.
C11_SizeCountsFacts ==
  [][(store = "open" /\ last'.op = "put")
       => /\ "noop" \in DOMAIN last'.out => size(graph') = size(graph)
          /\ "ok" \in DOMAIN last'.out
               => size(graph') = size(graph) + FactCount(last'.sig, last'.expl)]_vars

\* C11's case: a put with every optional field set has inserted, into a
\* store that already held another record
C11_Witness ==
  /\ PutInserted
  /\ last.expl = ExFull
  /\ Cardinality(Records(graph)) >= 2

\* C12 (as claimed): a put that raises leaves the store unchanged:
\* exists(S) is still false and size() is what it was.
C12_FailedPutChangesNothing ==
  [][(store = "open" /\ last'.op = "put" /\ "raised" \in DOMAIN last'.out)
       => /\ ~has_violation(graph', last'.sig)
          /\ size(graph') = size(graph)]_vars

ExplanationFields ==
  { XSH_naturalLanguageText, XSH_correctionSuggestions, XSH_providedByModel,
    XSH_violation, XSH_justificationTree, XSH_retrievedContext }

\* C13 (as claimed): every signature record in the store has exactly one
\* hasExplanation link, to the record named by its identifier plus
\* "_explanation", and that record has at most one value per field.
C13_RecordStructure ==
  store = "open" =>
    \A u \in Records(graph) :
      LET expl_uri == U(u.uri \o "_explanation")
      IN  /\ Values(graph, u, XSH_hasExplanation) = {expl_uri}
          /\ \A p \in ExplanationFields : Cardinality(Values(graph, expl_uri, p)) <= 1

\* C14 (as claimed): after a put or a clear that returned, a second store
\* opened on the same schema resource and instance document agrees with
\* the live one on exists(S) and get(S) for every S and on size().
C14_RestartTransparency ==
  (store = "open" /\ last.op \in {"put", "clear"} /\ "raised" \notin DOMAIN last.out)
    => LET r == Construct(ontology_doc, kg_doc)
       IN  /\ "graph" \in DOMAIN r
           /\ \A sig \in Sigs :
                /\ has_violation(r.graph, sig) = has_violation(graph, sig)
                /\ get_explanation(r.graph, sig) = get_explanation(graph, sig)
           /\ size(r.graph) = size(graph)

\* property_path with an absent path counted as the empty string
PathOrEmpty(o) == IF o = None THEN "" ELSE o[1]

\* the two signatures differ in some field, the parameters compared as mappings
DifferentContent(s1, s2) ==
  \/ s1.constraint_id /= s2.constraint_id
  \/ PathOrEmpty(s1.property_path) /= PathOrEmpty(s2.property_path)
  \/ s1.violation_type /= s2.violation_type
  \/ Range(s1.constraint_params) /= Range(s2.constraint_params)

\* C15 (as claimed): with the hash injective, two signatures that differ in
\* constraint_id, property_path (absent counted as ""), violation_type or
\* constraint_params content get different identifiers.
C15_DistinctKeys ==
  (canon.out /= <<>> /\ DifferentContent(canon.s1, canon.s2))
    => canon.out[1] /= canon.out[2]

\* C16 (as claimed): the justification tree get(S) returns has the root
\* and the violation of the tree that was put, whatever the explanation's
\* own violation field is.
C16_TreeReadBack ==
  (PutInserted /\ Cardinality(Records(graph)) = 1 /\ last.expl.justification_tree /= None)
    => \A r \in get_explanation(graph, last.sig) :
         /\ "error" \notin DOMAIN r
         /\ r.justification_tree = last.expl.justification_tree

RoundTripSigs == {SigA, SigB}

C18_DictRoundTrip ==
  trip.out /= <<>> => trip.out[1] = [value |-> trip.x]

====
